---- MODULE Spec2Model ----
(***************************************************************************)
(* Model of the eda-cli quality engine (eda_cli/core.py): the pipeline     *)
(* summarize_dataset -> missing_table -> compute_quality_flags run on one  *)
(* in-memory table, as the CLI command overview runs it (Spec), the single *)
(* functions on small tables (SpecSummarize, SpecTop, SpecMissing,         *)
(* SpecPair) and the CLI command report on a loaded CSV file (SpecReport). *)
(*                                                                         *)
(* A table is a record [n_rows, columns]; a column is a record             *)
(* [name, dtype, cells], with its categories too when the dtype is         *)
(* category; a cell is <<>> when missing (NaN/None) and <<v>> when it      *)
(* holds the value v.  Floats are modelled as exact fractions [num, den]   *)
(* in lowest terms.                                                        *)
(***************************************************************************)
EXTENDS Integers, Sequences, FiniteSets, TLC

VARIABLES df, summary, missing_df, flags, divisors, args, pc,
          top_cats, corr_df, report_content, files, df2, flags2

vars == <<df, summary, missing_df, flags, divisors, args, pc,
          top_cats, corr_df, report_content, files, df2, flags2>>

\* what only the report command produces, and the second table of a comparison
reportVars == <<top_cats, corr_df, report_content, files>>
pairVars == <<df2, flags2>>

(***************************************************************************)
(* Bounds of the enumerated tables.                                        *)
(***************************************************************************)
MaxRows == 4
MaxCols == 2
MaxCells == 6

(***************************************************************************)
(* Program constants.                                                      *)
(***************************************************************************)
FewRowsLimit == 100
ManyColsLimit == 100

(***************************************************************************)
(* Exact fractions standing for the program's floats.                      *)
(***************************************************************************)
RECURSIVE Gcd(_, _)
Gcd(a, b) == IF b = 0 THEN a ELSE Gcd(b, a % b)

Abs(n) == IF n < 0 THEN -n ELSE n

Rat(n, d) ==
    LET g == Gcd(Abs(n), d)
    IN  [num |-> n \div g, den |-> d \div g]

Lcm(a, b) == (a \div Gcd(a, b)) * b

RSub(x, y) ==
    LET l == Lcm(x.den, y.den)
    IN  Rat(x.num * (l \div x.den) - y.num * (l \div y.den), l)

RMul(x, y) == Rat(x.num * y.num, x.den * y.den)

\* x / n for an integer n > 0
RDivInt(x, n) == Rat(x.num, x.den * n)

\* x < y, for denominators that are positive
RLess(x, y) == x.num * y.den < y.num * x.den

RMin(x, y) == IF RLess(y, x) THEN y ELSE x
RMax(x, y) == IF RLess(x, y) THEN y ELSE x

Zero == Rat(0, 1)
One == Rat(1, 1)

\* the float nan: no fraction, and in no order relation with any
NaN == [num |-> 0, den |-> 0]

(***************************************************************************)
(* The tables the pipeline is run on.                                      *)
(***************************************************************************)
NA == <<>>
isna(cell) == cell = NA
notna(cell) == cell # NA

NumValues == {0, 1}
CatValues == {"A", "B"}
NumCells == {NA} \cup {<<v>> : v \in NumValues}
CatCells == {NA} \cup {<<v>> : v \in CatValues}

Digit == <<"0", "1", "2", "3", "4", "5", "6", "7", "8", "9">>

RECURSIVE Str(_)
Str(n) == IF n < 10 THEN Digit[n + 1] ELSE Str(n \div 10) \o Digit[(n % 10) + 1]

\* the header of the j-th column
ColName(j) == "c" \o Str(j)

\* the cells of a column that has no missing cell
IntCells == {<<v>> : v \in NumValues}

\* what a column of r rows can hold: its dtype and its cells; a column of
\* dtype int64 has no missing cell
ColumnContents(r) ==
    {[dtype |-> "float64", cells |-> s] : s \in [1..r -> NumCells]}
    \cup {[dtype |-> "int64", cells |-> s] : s \in [1..r -> IntCells]}
    \cup {[dtype |-> "object", cells |-> s] : s \in [1..r -> CatCells]}

\* the values the cells hold
observed(cells) == {cells[i][1] : i \in {k \in DOMAIN cells : notna(cells[k])}}

\* a column of dtype category: its cells, and its categories, which are the
\* values it holds and any number of values it does not hold
CategoryContents(r) ==
    UNION {{[dtype |-> "category", cells |-> s, categories |-> cats] :
              cats \in {c \in SUBSET CatValues : observed(s) \subseteq c}} :
             s \in [1..r -> CatCells]}

MkColumn(j, content) ==
    IF content.dtype = "category"
    THEN [name |-> ColName(j), dtype |-> content.dtype, cells |-> content.cells,
          categories |-> content.categories]
    ELSE [name |-> ColName(j), dtype |-> content.dtype, cells |-> content.cells]

MkTable(r, contents) ==
    [n_rows |-> r, columns |-> [j \in DOMAIN contents |-> MkColumn(j, contents[j])]]

\* every table of at most MaxRows rows, MaxCols columns and MaxCells cells
SmallTables ==
    UNION {{MkTable(r, cs) : cs \in [1..c -> ColumnContents(r)]} :
             <<r, c>> \in {rc \in (0..MaxRows) \X (0..MaxCols) : rc[1] * rc[2] <= MaxCells}}

\* a column of n rows that repeats the cells of `content` cyclically
Cycle(content, n) ==
    [dtype |-> content.dtype,
     cells |-> [i \in 1..n |-> content.cells[((i - 1) % Len(content.cells)) + 1]]]

\* a column of n rows whose first `missing` cells are missing and whose other
\* cells hold the value of `content`
Staircase(content, n, missing) ==
    [dtype |-> content.dtype,
     cells |-> [i \in 1..n |-> IF i <= missing THEN NA ELSE content.cells[1]]]

\* what the columns of a wide table repeat: a missing cell, a zero or a text
WideContents ==
    {c \in ColumnContents(1) :
       isna(c.cells[1]) \/ c.cells[1] = (IF c.dtype = "object" THEN <<"A">> ELSE <<0>>)}

\* of these, the columns that hold a value and may have missing cells
StairContents == {c \in WideContents : c.dtype # "int64" /\ notna(c.cells[1])}

\* tables of more than ManyColsLimit columns.  Without a row: a first column,
\* then copies of a column.  With FewRowsLimit - 1 rows: a first column that
\* holds one cell throughout, then columns with 0, 1, 2, ... missing cells, so
\* that one share only is the share of two columns
WideTables ==
    {MkTable(0, [j \in 1..(ManyColsLimit + 1) |-> IF j = 1 THEN a ELSE Cycle(b, 0)]) :
       a \in ColumnContents(0), b \in WideContents}
    \cup {MkTable(FewRowsLimit - 1,
                  [j \in 1..(ManyColsLimit + 1) |->
                     IF j = 1 THEN Cycle(a, FewRowsLimit - 1)
                     ELSE Staircase(b, FewRowsLimit - 1, j - 2)]) :
            a \in WideContents, b \in StairContents}

\* tables of FewRowsLimit rows: up to two columns that repeat a short pattern
LongTables ==
    {MkTable(FewRowsLimit, <<>>)}
    \cup {MkTable(FewRowsLimit, <<Cycle(a, FewRowsLimit)>>) : a \in ColumnContents(2)}
    \cup {MkTable(FewRowsLimit, <<Cycle(a, FewRowsLimit), Cycle(b, FewRowsLimit)>>) :
            a \in ColumnContents(2), b \in ColumnContents(1)}

Tables == SmallTables \cup WideTables \cup LongTables

(***************************************************************************)
(* pandas operations the program uses.                                     *)
(***************************************************************************)
ColumnNames(table) == {table.columns[j].name : j \in DOMAIN table.columns}

\* df[name]
Col(table, name) ==
    table.columns[CHOOSE j \in DOMAIN table.columns : table.columns[j].name = name]

\* a shape read with its two axes swapped
shape_swapped(table) == <<Len(table.columns), table.n_rows>>

\* df.shape
shape(table) == <<table.n_rows, Len(table.columns)>>

\* df.empty: some axis has length 0
empty(table) == table.n_rows = 0 \/ Len(table.columns) = 0

\* s.notna().sum()
notna_sum(cells) == Cardinality({i \in DOMAIN cells : notna(cells[i])})

\* s.isna().sum()
isna_sum(cells) == Cardinality({i \in DOMAIN cells : isna(cells[i])})

\* s.nunique(dropna=True)
nunique(cells) == Cardinality({cells[i] : i \in {k \in DOMAIN cells : notna(cells[k])}})

\* ptypes.is_numeric_dtype(s): true of the number dtypes and of bool
is_numeric_dtype(col) == col.dtype \in {"float64", "int64", "bool"}

\* select_dtypes(include="number"): the number dtypes, which bool is not one of
is_number_dtype(col) == col.dtype \in {"float64", "int64"}

\* (s == 0).sum(): a missing cell compares unequal to 0
zero_sum(cells) == Cardinality({i \in DOMAIN cells : cells[i] = <<0>>})

\* duplicated(keep="first"): only the repeats of a key, not its first row
duplicated_rows_keep_first(cells) ==
    Cardinality({i \in DOMAIN cells : \E k \in DOMAIN cells : k < i /\ cells[k] = cells[i]})

\* df[df.duplicated(subset=[name], keep=False)].shape[0]: every row whose key
\* occurs in another row too; missing keys are equal to each other
duplicated_rows(cells) ==
    LET keys == {cells[i] : i \in DOMAIN cells}
        occurrences == [v \in keys |-> Cardinality({k \in DOMAIN cells : cells[k] = v})]
    IN  Cardinality({i \in DOMAIN cells : occurrences[cells[i]] > 1})

\* s.dropna().astype(str): a float prints with its decimal point, an int
\* without, a bool (held as 0 or 1) as False or True, a string as itself
astype_str(dtype, v) ==
    IF dtype \in {"object", "category"} THEN v
    ELSE IF dtype = "bool" THEN (IF v = 1 THEN "True" ELSE "False")
    ELSE IF dtype = "int64" THEN Str(v)
    ELSE Str(v) \o ".0"

\* s.dropna(): the non-missing values in row order
dropna(cells) ==
    LET kept == SelectSeq(cells, notna)
    IN  [i \in DOMAIN kept |-> kept[i][1]]

\* .unique(): the distinct values in order of first appearance
unique_values(vals) ==
    LET firsts == SelectSeq([i \in DOMAIN vals |-> i],
                            LAMBDA i : \A k \in 1..(i - 1) : vals[k] # vals[i])
    IN  [i \in DOMAIN firsts |-> vals[firsts[i]]]

\* a slice that keeps one element too many
FirstKAndOne(seq, k) == SubSeq(seq, 1, IF k + 1 < Len(seq) THEN k + 1 ELSE Len(seq))

\* [:k], for k >= 0
FirstK(seq, k) == SubSeq(seq, 1, IF k < Len(seq) THEN k ELSE Len(seq))

\* the sum of the values, taken value by value
RECURSIVE SumOver(_, _)
SumOver(distinct, vals) ==
    IF distinct = {} THEN 0
    ELSE LET v == CHOOSE x \in distinct : TRUE
         IN  v * Cardinality({i \in DOMAIN vals : vals[i] = v}) + SumOver(distinct \ {v}, vals)

SumSeq(vals) == SumOver({vals[i] : i \in DOMAIN vals}, vals)

MinOf(vals) == CHOOSE v \in {vals[i] : i \in DOMAIN vals} : \A i \in DOMAIN vals : v <= vals[i]
MaxOf(vals) == CHOOSE v \in {vals[i] : i \in DOMAIN vals} : \A i \in DOMAIN vals : v >= vals[i]

(***************************************************************************)
(* summarize_dataset: one ColumnSummary per column, in column order.       *)
(* An absent optional field (None) is <<>>, a present one is <<value>>.    *)
(* std, a square root, is kept as the fraction under the root.             *)
(***************************************************************************)
ExampleValuesDefault == 3

\* s.std(): the sample standard deviation, nan for a single value; the root of
\* (n * sum(x^2) - sum(x)^2) / (n * (n - 1))
sample_std(vals) ==
    LET n == Len(vals)
        total == SumSeq(vals)
        squares == SumSeq([i \in DOMAIN vals |-> vals[i] * vals[i]])
    IN  IF n = 1 THEN NaN
        ELSE [sqrt_of |-> Rat(n * squares - total * total, n * (n - 1))]

\* if is_numeric and non_null > 0
has_stats(is_numeric, non_null) == is_numeric /\ non_null > 0

ColumnSummary(col, n_rows, example_values_per_column) ==
    LET s == col.cells
        non_null == notna_sum(s)
        missing == n_rows - non_null
        missing_share == IF n_rows > 0 THEN Rat(missing, n_rows) ELSE Zero
        unique == nunique(s)
        vals == dropna(s)
        strs == [i \in DOMAIN vals |-> astype_str(col.dtype, vals[i])]
        examples == IF non_null > 0
                    THEN FirstK(unique_values(strs), example_values_per_column)
                    ELSE <<>>
        is_numeric == is_numeric_dtype(col)
        stats == has_stats(is_numeric, non_null)
    IN  [name |-> col.name,
         dtype |-> col.dtype,
         non_null |-> non_null,
         missing |-> missing,
         missing_share |-> missing_share,
         unique |-> unique,
         example_values |-> examples,
         is_numeric |-> is_numeric,
         min |-> IF stats THEN <<MinOf(vals)>> ELSE <<>>,
         max |-> IF stats THEN <<MaxOf(vals)>> ELSE <<>>,
         mean |-> IF stats THEN <<Rat(SumSeq(vals), non_null)>> ELSE <<>>,
         std |-> IF stats THEN <<sample_std(vals)>> ELSE <<>>]

summarize_dataset(table, example_values_per_column) ==
    LET n_rows == shape(table)[1]
        n_cols == shape(table)[2]
    IN  [n_rows |-> n_rows,
         n_cols |-> n_cols,
         columns |-> [j \in DOMAIN table.columns |->
                        ColumnSummary(table.columns[j], n_rows, example_values_per_column)]]

(***************************************************************************)
(* missing_table: one row per column, sorted by missing_share descending.  *)
(* The sort is sort_values with its default kind, quicksort, which is not  *)
(* stable: rows of equal share come out in an order the call does not      *)
(* determine, and every such order is a possible outcome.                  *)
(***************************************************************************)
\* total = df.isna().sum(); share = total / len(df): one row per column
missing_rows(table) ==
    [j \in DOMAIN table.columns |->
       LET total == isna_sum(table.columns[j].cells)
       IN  [name |-> table.columns[j].name,
            missing_count |-> total,
            missing_share |-> Rat(total, table.n_rows)]]

\* for each row, the number of rows of greater share, which come before it
rows_above(rows) ==
    [i \in DOMAIN rows |->
       Cardinality({k \in DOMAIN rows : RLess(rows[i].missing_share, rows[k].missing_share)})]

\* for each row, the number of rows of its share, itself included
rows_tied(rows) ==
    [i \in DOMAIN rows |->
       Cardinality({k \in DOMAIN rows : rows[k].missing_share = rows[i].missing_share})]

\* the rows placed: a row whose share no other row has goes to its one place,
\* the rows of a shared share to the places g gives them
placed(rows, above, movable, g) ==
    LET place == [i \in DOMAIN rows |-> IF i \in movable THEN g[i] ELSE above[i] + 1]
    IN  [p \in DOMAIN rows |-> rows[CHOOSE i \in DOMAIN rows : place[i] = p]]

\* sort_values("missing_share", ascending=False): the rows by descending
\* share, the rows of one share in any order among the places of that share
sort_values_outcomes(rows) ==
    LET above == rows_above(rows)
        tied == rows_tied(rows)
        movable == {i \in DOMAIN rows : tied[i] > 1}
        places == UNION {(above[i] + 1)..(above[i] + tied[i]) : i \in movable}
        orders == {g \in [movable -> places] :
                     /\ \A i \in movable : g[i] > above[i] /\ g[i] <= above[i] + tied[i]
                     /\ \A i, k \in movable : i # k => g[i] # g[k]}
    IN  {placed(rows, above, movable, g) : g \in orders}

missing_table_outcomes(table) ==
    IF empty(table) THEN {<<>>}
    ELSE sort_values_outcomes(missing_rows(table))

(***************************************************************************)
(* top_categories: for the first max_columns text columns, the top_k most  *)
(* frequent values with their counts and shares.  The result, an ordered   *)
(* dict, is a sequence of [name, table] entries.  value_counts sorts by     *)
(* count with a sort that is not stable, so the order of values of equal   *)
(* count is not determined: every order is a possible outcome.             *)
(***************************************************************************)
\* ptypes.is_object_dtype(s) or isinstance(s.dtype, pd.CategoricalDtype)
is_object_dtype(col) == col.dtype \in {"object", "category"}

\* seq[:n] and .head(n): the first n entries; for n < 0, all but the last -n
head(seq, n) ==
    LET stop == IF n >= 0 THEN n ELSE Len(seq) + n
    IN  SubSeq(seq, 1, IF stop < 0 THEN 0 ELSE IF stop < Len(seq) THEN stop ELSE Len(seq))

\* the number of cells that hold v
count_of(cells, v) == Cardinality({i \in DOMAIN cells : cells[i] = <<v>>})

\* the values value_counts has a row for: the values the cells hold and, for
\* a column of dtype category, every category, held or not
counted_values(col) ==
    observed(col.cells) \cup (IF col.dtype = "category" THEN col.categories ELSE {})

\* s.value_counts(dropna=True): one (value, count) row per counted value,
\* the counts descending, in each order the sort may leave equal counts in
value_counts_outcomes(col) ==
    LET values == counted_values(col)
        n == Cardinality(values)
        orders == {g \in [1..n -> values] :
                     /\ \A i, k \in 1..n : i # k => g[i] # g[k]
                     /\ \A i \in 1..(n - 1) :
                          count_of(col.cells, g[i]) >= count_of(col.cells, g[i + 1])}
    IN  {[i \in 1..n |-> [value |-> g[i], count |-> count_of(col.cells, g[i])]] : g \in orders}

\* .head(top_k)
kept_counts(vc, top_k) == head(vc, top_k)

\* vc / vc.sum(): a count over the sum of the kept counts, nan when that sum is 0
share_of(count, total) == IF total = 0 THEN NaN ELSE Rat(count, total)

\* the value/count/share table of the kept rows
category_table(vc) ==
    [i \in DOMAIN vc |-> [value |-> astype_str("object", vc[i].value),
                          count |-> vc[i].count,
                          share |-> share_of(vc[i].count,
                                             SumSeq([k \in DOMAIN vc |-> vc[k].count]))]]

top_categories_outcomes(table, max_columns, top_k) ==
    LET candidate_cols == SelectSeq(table.columns, is_object_dtype)
        selected == head(candidate_cols, max_columns)
        m == Len(selected)
        counted == [i \in 1..m |-> value_counts_outcomes(selected[i])]
        choices == {f \in [1..m -> UNION {counted[i] : i \in 1..m}] :
                      \A i \in 1..m : f[i] \in counted[i]}
    IN  {SelectSeq([i \in 1..m |-> [name |-> selected[i].name,
                                    table |-> category_table(kept_counts(f[i], top_k))]],
                   LAMBDA entry : entry.table # <<>>) : f \in choices}

(***************************************************************************)
(* compute_quality_flags.  The optional id_column is <<>> when None and    *)
(* <<name>> when given; thresholds that are floats are fractions.          *)
(***************************************************************************)
None == <<>>

\* missing_df["missing_share"].max() if not missing_df.empty else 0.0
max_share(rows) ==
    CHOOSE x \in {rows[i].missing_share : i \in DOMAIN rows} :
      \A i \in DOMAIN rows : ~RLess(x, rows[i].missing_share)

\* a greatest share that is always taken to be 0.0
max_missing_share_ignored(missing_table_rows) == Zero

max_missing_share_of(missing_table_rows) ==
    IF Len(missing_table_rows) # 0 THEN max_share(missing_table_rows) ELSE Zero

\* a constant test that also passes a column with no value at all
is_constant_or_empty(col_summary) == col_summary.unique <= 1

\* heuristic 1: the names of the columns with exactly one distinct value
is_constant(col_summary) == col_summary.unique = 1

constant_columns_of(s) ==
    LET kept == SelectSeq(s.columns, is_constant)
    IN  [i \in DOMAIN kept |-> kept[i].name]

\* a cardinality test that forgets to skip the numeric columns
is_high_cardinality_any_dtype(col_summary, high_cardinality_threshold) ==
    col_summary.unique > high_cardinality_threshold

\* heuristic 2: (name, unique) of the non-numeric columns above the threshold
is_high_cardinality(col_summary, high_cardinality_threshold) ==
    ~col_summary.is_numeric /\ col_summary.unique > high_cardinality_threshold

high_cardinality_cols_of(s, high_cardinality_threshold) ==
    LET kept == SelectSeq(s.columns,
                          LAMBDA cs : is_high_cardinality(cs, high_cardinality_threshold))
    IN  [i \in DOMAIN kept |-> <<kept[i].name, kept[i].unique>>]

\* a zero-ratio guard that forgets the non_null > 0 test
zero_ratio_checked_unguarded(col_summary) == col_summary.is_numeric

\* heuristic 3: (name, zero_ratio) of the numeric columns above the threshold
zero_ratio_checked(col_summary) == col_summary.is_numeric /\ col_summary.non_null > 0

\* zero_count / non_null; dividing by 0 gives nan, which exceeds nothing
zero_ratio_of(table, col_summary) ==
    IF col_summary.non_null = 0 THEN NaN
    ELSE Rat(zero_sum(Col(table, col_summary.name).cells), col_summary.non_null)

\* a threshold test that also flags a ratio equal to the threshold
exceeds_or_equals(zero_ratio, zero_ratio_threshold) ==
    zero_ratio # NaN /\ ~RLess(zero_ratio, zero_ratio_threshold)

exceeds(zero_ratio, zero_ratio_threshold) ==
    zero_ratio # NaN /\ RLess(zero_ratio_threshold, zero_ratio)

high_zero_ratio_cols_of(s, table, zero_ratio_threshold) ==
    LET kept == SelectSeq(s.columns,
                          LAMBDA cs : /\ zero_ratio_checked(cs)
                                      /\ exceeds(zero_ratio_of(table, cs), zero_ratio_threshold))
    IN  [i \in DOMAIN kept |-> <<kept[i].name, zero_ratio_of(table, kept[i])>>]

\* heuristic 4: `if id_column and id_column in df.columns`
id_column_evaluated(table, id_column) ==
    /\ id_column # None
    /\ id_column[1] # ""
    /\ id_column[1] \in ColumnNames(table)

\* a row test that spares the table with no rows
too_few_rows_unless_empty(s) == s.n_rows < FewRowsLimit /\ s.n_rows > 0

\* summary.n_rows < 100 and summary.n_cols > 100, as the flags and the score test them
too_few_rows(s) == s.n_rows < FewRowsLimit
too_many_columns(s) == s.n_cols > ManyColsLimit

\* duplicate flags that record the id column whenever one is passed
id_flags_always_checked(table, id_column) ==
    IF id_column_evaluated(table, id_column)
    THEN LET duplicate_count == duplicated_rows(Col(table, id_column[1]).cells)
         IN  [has_suspicious_id_duplicates |-> duplicate_count > 0,
              id_duplicates_count |-> duplicate_count,
              id_column_checked |-> id_column[1]]
    ELSE IF id_column # None
    THEN [has_suspicious_id_duplicates |-> FALSE,
          id_duplicates_count |-> 0,
          id_column_checked |-> id_column[1]]
    ELSE [has_suspicious_id_duplicates |-> FALSE,
          id_duplicates_count |-> 0]

\* duplicate flags that never record which column was checked
id_flags_checked_unrecorded(table, id_column) ==
    IF id_column_evaluated(table, id_column)
    THEN LET duplicate_count == duplicated_rows(Col(table, id_column[1]).cells)
         IN  [has_suspicious_id_duplicates |-> duplicate_count > 0,
              id_duplicates_count |-> duplicate_count]
    ELSE [has_suspicious_id_duplicates |-> FALSE,
          id_duplicates_count |-> 0]

\* the duplicate flags: the defaults, overwritten when the id column is evaluated
id_flags(table, id_column) ==
    IF id_column_evaluated(table, id_column)
    THEN LET duplicate_count == duplicated_rows(Col(table, id_column[1]).cells)
         IN  [has_suspicious_id_duplicates |-> duplicate_count > 0,
              id_duplicates_count |-> duplicate_count,
              id_column_checked |-> id_column[1]]
    ELSE [has_suspicious_id_duplicates |-> FALSE,
          id_duplicates_count |-> 0]

\* the flags before the score is added
heuristic_flags(s, missing_table_rows, table, high_cardinality_threshold, zero_ratio_threshold, id_column) ==
    LET max_missing_share == max_missing_share_of(missing_table_rows)
        constant_columns == constant_columns_of(s)
        high_cardinality_cols == high_cardinality_cols_of(s, high_cardinality_threshold)
        high_zero_ratio_cols == high_zero_ratio_cols_of(s, table, zero_ratio_threshold)
    IN  [too_few_rows |-> too_few_rows(s),
         too_many_columns |-> too_many_columns(s),
         max_missing_share |-> max_missing_share,
         too_many_missing |-> RLess(Rat(1, 2), max_missing_share),
         has_constant_columns |-> Len(constant_columns) > 0,
         constant_columns |-> constant_columns,
         n_constant_columns |-> Len(constant_columns),
         has_high_cardinality_categoricals |-> Len(high_cardinality_cols) > 0,
         high_cardinality_columns |-> high_cardinality_cols,
         high_cardinality_threshold |-> high_cardinality_threshold,
         has_many_zero_values |-> Len(high_zero_ratio_cols) > 0,
         high_zero_ratio_columns |-> high_zero_ratio_cols,
         zero_ratio_threshold |-> zero_ratio_threshold]
        @@ id_flags(table, id_column)

\* the non_null counts the zero ratios are divided by, in column order
ratio_divisors(s) ==
    LET checked == SelectSeq(s.columns, zero_ratio_checked)
    IN  [i \in DOMAIN checked |-> checked[i].non_null]

\* the n_cols and n_rows the penalties are divided by, in the order they are reached
score_divisors(s, f) ==
    (IF f.has_constant_columns THEN <<s.n_cols>> ELSE <<>>)
    \o (IF f.has_high_cardinality_categoricals THEN <<s.n_cols>> ELSE <<>>)
    \o (IF f.has_many_zero_values THEN <<s.n_cols>> ELSE <<>>)
    \o (IF f.has_suspicious_id_duplicates THEN <<s.n_rows>> ELSE <<>>)

\* every integer the call divides by
quality_divisors(s, f) == ratio_divisors(s) \o score_divisors(s, f)

\* a score that is returned as computed, without the clamp
clamp_missing(score) == score

\* score = max(0.0, min(1.0, score))
clamp(score) == RMax(Zero, RMin(One, score))

\* a penalty that is not scaled by the number of columns or rows
penalty_unscaled(weight, count, total) == RMul(weight, Rat(count, 1))

\* weight * count / total
penalty(weight, count, total) == RDivInt(RMul(weight, Rat(count, 1)), total)

\* the penalties, subtracted one after the other
raw_score(s, f) ==
    LET s0 == One
        s1 == RSub(s0, RMul(f.max_missing_share, Rat(3, 10)))
        s2 == IF too_few_rows(s) THEN RSub(s1, Rat(2, 10)) ELSE s1
        s3 == IF too_many_columns(s) THEN RSub(s2, Rat(1, 10)) ELSE s2
        s4 == IF f.has_constant_columns
              THEN RSub(s3, penalty(Rat(2, 10), f.n_constant_columns, s.n_cols))
              ELSE s3
        s5 == IF f.has_high_cardinality_categoricals
              THEN RSub(s4, penalty(Rat(15, 100), Len(f.high_cardinality_columns), s.n_cols))
              ELSE s4
        s6 == IF f.has_many_zero_values
              THEN RSub(s5, penalty(Rat(1, 10), Len(f.high_zero_ratio_columns), s.n_cols))
              ELSE s5
        s7 == IF f.has_suspicious_id_duplicates
              THEN RSub(s6, penalty(Rat(25, 100), f.id_duplicates_count, s.n_rows))
              ELSE s6
    IN  s7

\* the returned mapping, or the error raised by a division by zero
compute_quality_flags(s, missing_table_rows, table, high_cardinality_threshold, zero_ratio_threshold, id_column) ==
    LET f == heuristic_flags(s, missing_table_rows, table,
                             high_cardinality_threshold, zero_ratio_threshold, id_column)
        ds == score_divisors(s, f)
    IN  IF \E i \in DOMAIN ds : ds[i] = 0
        THEN [raised |-> "ZeroDivisionError"]
        ELSE ("quality_score" :> clamp(raw_score(s, f))) @@ f

(***************************************************************************)
(* The arguments the calls are made with.                                  *)
(***************************************************************************)
HighCardinalityThresholds == {-1, 0, 1}
ZeroRatioThresholds == {Rat(0, 1), Rat(1, 2)}
IdColumns == {None, <<"">>, <<"id">>, <<ColName(1)>>, <<ColName(2)>>}

NoArgs == [high_cardinality_threshold |-> 0, zero_ratio_threshold |-> Zero, id_column |-> None]

(***************************************************************************)
(* The pipeline: a loaded table is summarized, its missing table is built, *)
(* and the quality flags are computed from the three.                      *)
(***************************************************************************)
\* nothing has been computed yet
Fresh ==
    /\ summary = <<>>
    /\ missing_df = <<>>
    /\ flags = <<>>
    /\ divisors = <<>>
    /\ args = NoArgs
    /\ top_cats = <<>>
    /\ corr_df = <<>>
    /\ report_content = <<>>
    /\ files = {}
    /\ flags2 = <<>>
    /\ pc = "loaded"

Init ==
    /\ df \in Tables
    /\ df2 = <<>>
    /\ Fresh

SummarizeDataset ==
    /\ pc = "loaded"
    /\ summary' = summarize_dataset(df, ExampleValuesDefault)
    /\ pc' = "summarized"
    /\ UNCHANGED <<df, missing_df, flags, divisors, args, reportVars, pairVars>>

MissingTable ==
    /\ pc = "summarized"
    /\ missing_df' \in missing_table_outcomes(df)
    /\ pc' = "missing"
    /\ UNCHANGED <<df, summary, flags, divisors, args, reportVars, pairVars>>

ComputeQualityFlags ==
    /\ pc = "missing"
    /\ \E hct \in HighCardinalityThresholds, zrt \in ZeroRatioThresholds, idc \in IdColumns :
         /\ args' = [high_cardinality_threshold |-> hct,
                     zero_ratio_threshold |-> zrt,
                     id_column |-> idc]
         /\ flags' = compute_quality_flags(summary, missing_df, df, hct, zrt, idc)
         /\ divisors' = quality_divisors(summary,
                                         heuristic_flags(summary, missing_df, df, hct, zrt, idc))
    /\ pc' = "flagged"
    /\ UNCHANGED <<df, summary, missing_df, reportVars, pairVars>>

Next == SummarizeDataset \/ MissingTable \/ ComputeQualityFlags

Spec == Init /\ [][Next]_vars

(***************************************************************************)
(* Properties.                                                             *)
(***************************************************************************)
Range(seq) == {seq[i] : i \in DOMAIN seq}

\* compute_quality_flags has returned its mapping
Flagged == pc = "flagged"

\* C1: whatever the table and the arguments, the returned quality_score lies
\* in [0.0, 1.0], however many heuristics fire at once.
QualityScoreClamped ==
    Flagged =>
        /\ "quality_score" \in DOMAIN flags
        /\ ~RLess(flags.quality_score, Zero)
        /\ ~RLess(One, flags.quality_score)

\* the penalties add up to more than 1.0 and the clamp returns 0.0
QualityScoreClampedWitness ==
    /\ Flagged
    /\ flags.too_few_rows /\ flags.too_many_columns
    /\ flags.has_constant_columns /\ flags.has_high_cardinality_categoricals
    /\ flags.has_suspicious_id_duplicates
    /\ RLess(raw_score(summary, flags), Zero)
    /\ flags.quality_score = Zero

\* the maximum of the missing table's missing_share column, 0.0 when it is empty
IsMaxOfMissingShares(m) ==
    IF Len(missing_df) = 0 THEN m = Zero
    ELSE /\ \E i \in DOMAIN missing_df : m = missing_df[i].missing_share
         /\ \A i \in DOMAIN missing_df :
              missing_df[i].missing_share.num * m.den <= m.num * missing_df[i].missing_share.den

\* the scoring formula in hundredths over the common denominator n_rows * n_cols
FormulaScore ==
    LET R == IF summary.n_rows > 0 THEN summary.n_rows ELSE 1
        C == IF summary.n_cols > 0 THEN summary.n_cols ELSE 1
        D == 100 * R * C
        m == flags.max_missing_share
        N == D - 30 * C * (R \div m.den) * m.num
               - (IF summary.n_rows < FewRowsLimit THEN 20 * R * C ELSE 0)
               - (IF summary.n_cols > ManyColsLimit THEN 10 * R * C ELSE 0)
               - (IF flags.has_constant_columns THEN 20 * R * flags.n_constant_columns ELSE 0)
               - (IF flags.has_high_cardinality_categoricals
                  THEN 15 * R * Len(flags.high_cardinality_columns) ELSE 0)
               - (IF flags.has_many_zero_values
                  THEN 10 * R * Len(flags.high_zero_ratio_columns) ELSE 0)
               - (IF flags.has_suspicious_id_duplicates
                  THEN 25 * C * flags.id_duplicates_count ELSE 0)
    IN  Rat(IF N < 0 THEN 0 ELSE IF N > D THEN D ELSE N, D)

\* C2: quality_score is the clamped value of 1.0 minus the seven weighted
\* penalties of the scoring algorithm, with max_missing_share the maximum of
\* the missing table's missing_share column (0.0 when that table is empty).
QualityScoreFormula ==
    Flagged =>
        /\ IsMaxOfMissingShares(flags.max_missing_share)
        /\ flags.quality_score = FormulaScore

\* a wide table on which the missing, size, constant, cardinality and zero
\* penalties are all subtracted and the score stays strictly inside (0, 1)
QualityScoreFormulaWitness ==
    /\ Flagged
    /\ flags.too_few_rows /\ flags.too_many_columns
    /\ RLess(Zero, flags.max_missing_share)
    /\ flags.has_constant_columns /\ flags.has_high_cardinality_categoricals
    /\ flags.has_many_zero_values
    /\ RLess(Zero, flags.quality_score) /\ RLess(flags.quality_score, One)

\* the id_column argument names a column of the table
IdColumnOfTable ==
    args.id_column # None /\ args.id_column[1] \in ColumnNames(df)

\* the rows whose id cell equals the id cell of another row (missing ids are
\* one key, as pandas groups them)
RowsSharingAnId ==
    LET ids == Col(df, args.id_column[1]).cells
    IN  {i \in 1..df.n_rows : \E k \in 1..df.n_rows : k # i /\ ids[k] = ids[i]}

\* C3: with an id_column that is a column of the table, id_duplicates_count
\* is the number of rows whose id occurs in more than one row, every
\* occurrence counted, the first one too.
IdDuplicatesCountAllOccurrences ==
    (Flagged /\ IdColumnOfTable) =>
        flags.id_duplicates_count = Cardinality(RowsSharingAnId)

\* some id is repeated and some is not: the count is neither 0 nor n_rows,
\* and exceeds the number of repeats beyond the first
IdDuplicatesCountWitness ==
    /\ Flagged /\ IdColumnOfTable
    /\ flags.id_duplicates_count = 2
    /\ df.n_rows = 3
    /\ nunique(Col(df, args.id_column[1]).cells) = 2
    /\ flags.id_column_checked = args.id_column[1]

\* the non-missing values of a column of the table
ValuesOf(col) == {col.cells[i][1] : i \in {k \in DOMAIN col.cells : col.cells[k] # NA}}

\* C4: a column is listed in constant_columns exactly when it has a
\* non-missing value and all its non-missing values are identical; a column
\* with only missing cells is never listed; n_constant_columns is the length
\* of the list.
ConstantColumnsExact ==
    Flagged =>
        /\ \A j \in DOMAIN df.columns :
             (df.columns[j].name \in Range(flags.constant_columns))
               <=> \E i \in DOMAIN df.columns[j].cells :
                     /\ df.columns[j].cells[i] # NA
                     /\ \A k \in DOMAIN df.columns[j].cells :
                          df.columns[j].cells[k] \in {NA, df.columns[j].cells[i]}
        /\ \A j \in DOMAIN df.columns :
             (\A i \in DOMAIN df.columns[j].cells : df.columns[j].cells[i] = NA)
               => df.columns[j].name \notin Range(flags.constant_columns)
        /\ Range(flags.constant_columns) \subseteq ColumnNames(df)
        /\ flags.n_constant_columns = Len(flags.constant_columns)
        /\ flags.n_constant_columns = Cardinality(Range(flags.constant_columns))
        /\ flags.has_constant_columns <=> flags.n_constant_columns > 0

\* a constant column with a missing cell is listed next to an all-missing
\* column that is not
ConstantColumnsWitness ==
    /\ Flagged
    /\ df.n_rows >= 2 /\ Len(df.columns) = 2
    /\ summary.columns[1].unique = 1 /\ summary.columns[1].missing > 0
    /\ summary.columns[2].unique = 0
    /\ flags.constant_columns = <<df.columns[1].name>>
    /\ flags.n_constant_columns = 1

\* the number of cells of a numeric column that equal zero
ZerosOf(col) == Cardinality({i \in DOMAIN col.cells : col.cells[i] = <<0>>})
NonNullOf(col) == Cardinality({i \in DOMAIN col.cells : col.cells[i] # NA})

\* numeric, with a value, and zeros / non_null strictly above the threshold
HasHighZeroRatio(col) ==
    /\ col.dtype \in {"float64", "int64", "bool"}
    /\ NonNullOf(col) > 0
    /\ ZerosOf(col) * args.zero_ratio_threshold.den
         > args.zero_ratio_threshold.num * NonNullOf(col)

\* C5: high_zero_ratio_columns holds (name, ratio) for exactly the numeric
\* columns with non_null > 0 whose share of zero cells is strictly above
\* zero_ratio_threshold; has_many_zero_values says whether it is non-empty.
HighZeroRatioExact ==
    Flagged =>
        /\ \A j \in DOMAIN df.columns :
             LET listed == {e \in Range(flags.high_zero_ratio_columns) :
                              e[1] = df.columns[j].name}
             IN  IF HasHighZeroRatio(df.columns[j])
                 THEN /\ Cardinality(listed) = 1
                      /\ \A e \in listed :
                           /\ e[2].den > 0
                           /\ e[2].num * NonNullOf(df.columns[j])
                                = ZerosOf(df.columns[j]) * e[2].den
                 ELSE listed = {}
        /\ Len(flags.high_zero_ratio_columns)
             = Cardinality({j \in DOMAIN df.columns : HasHighZeroRatio(df.columns[j])})
        /\ flags.has_many_zero_values <=> Len(flags.high_zero_ratio_columns) > 0

\* one numeric column sits exactly on the threshold and is not flagged, the
\* other lies above it and is
HighZeroRatioWitness ==
    /\ Flagged
    /\ Len(df.columns) = 2
    /\ args.zero_ratio_threshold = Rat(1, 2)
    /\ df.columns[1].dtype # "object" /\ df.columns[2].dtype # "object"
    /\ NonNullOf(df.columns[1]) = 2 /\ ZerosOf(df.columns[1]) = 1
    /\ NonNullOf(df.columns[2]) = 3 /\ ZerosOf(df.columns[2]) = 2
    /\ flags.high_zero_ratio_columns = <<<<df.columns[2].name, Rat(2, 3)>>>>
    /\ flags.has_many_zero_values

\* non-numeric, with more distinct values than the threshold
HasHighCardinality(col) ==
    col.dtype \notin {"float64", "int64", "bool"} /\ Cardinality(ValuesOf(col)) > args.high_cardinality_threshold

\* C6: high_cardinality_columns holds (name, distinct count) for exactly the
\* non-numeric columns with more distinct non-missing values than
\* high_cardinality_threshold; numeric columns are never listed;
\* has_high_cardinality_categoricals says whether the list is non-empty.
HighCardinalityExact ==
    Flagged =>
        /\ \A j \in DOMAIN df.columns :
             LET listed == {e \in Range(flags.high_cardinality_columns) :
                              e[1] = df.columns[j].name}
             IN  IF HasHighCardinality(df.columns[j])
                 THEN listed = {<<df.columns[j].name, Cardinality(ValuesOf(df.columns[j]))>>}
                 ELSE listed = {}
        /\ Len(flags.high_cardinality_columns)
             = Cardinality({j \in DOMAIN df.columns : HasHighCardinality(df.columns[j])})
        /\ flags.has_high_cardinality_categoricals <=> Len(flags.high_cardinality_columns) > 0

\* a text column above the threshold is listed while a numeric column with
\* as many distinct values is not
HighCardinalityWitness ==
    /\ Flagged
    /\ Len(df.columns) = 2
    /\ args.high_cardinality_threshold = 1
    /\ df.columns[1].dtype # "object" /\ summary.columns[1].unique = 2
    /\ df.columns[2].dtype = "object" /\ summary.columns[2].unique = 2
    /\ flags.high_cardinality_columns = <<<<df.columns[2].name, 2>>>>
    /\ flags.has_high_cardinality_categoricals

\* the id_column argument is passed but names no column of the table
IdColumnNotInTable ==
    args.id_column # None /\ args.id_column[1] \notin ColumnNames(df)

\* C7 as stated: with an id_column that is no column of the table, the call
\* raises nothing and the keys has_suspicious_id_duplicates,
\* id_duplicates_count and id_column_checked are all absent from the mapping.
UnknownIdColumnLeavesNoDuplicateKeys ==
    (Flagged /\ IdColumnNotInTable) =>
        /\ "quality_score" \in DOMAIN flags
        /\ "has_suspicious_id_duplicates" \notin DOMAIN flags
        /\ "id_duplicates_count" \notin DOMAIN flags
        /\ "id_column_checked" \notin DOMAIN flags

\* C7 amended: with an id_column that is no column of the table, the call
\* raises nothing, id_column_checked is absent, and the other two keys are
\* present with their defaults, False and 0.
UnknownIdColumnLeavesDefaults ==
    (Flagged /\ IdColumnNotInTable) =>
        /\ "quality_score" \in DOMAIN flags
        /\ "id_column_checked" \notin DOMAIN flags
        /\ "has_suspicious_id_duplicates" \in DOMAIN flags
        /\ "id_duplicates_count" \in DOMAIN flags
        /\ flags.has_suspicious_id_duplicates = FALSE
        /\ flags.id_duplicates_count = 0

\* the unknown name "id" is passed for a table whose first column repeats a value
UnknownIdColumnWitness ==
    /\ Flagged
    /\ args.id_column = <<"id">>
    /\ Len(df.columns) >= 1
    /\ duplicated_rows(df.columns[1].cells) > 0
    /\ flags.id_duplicates_count = 0
    /\ "id_column_checked" \notin DOMAIN flags

\* C8 as stated: for a table with no row or no column, quality_score is 1.0
\* minus the missing-share term only, which makes it 1.0.
EmptyTableScoresOne ==
    (Flagged /\ empty(df)) =>
        /\ flags.quality_score = RSub(One, RMul(flags.max_missing_share, Rat(3, 10)))
        /\ flags.quality_score = One

\* 1.0 less the size penalties and the cardinality penalty, in hundredths of n_cols
EmptyTableScore ==
    LET C == IF summary.n_cols > 0 THEN summary.n_cols ELSE 1
    IN  Rat(100 * C - (IF summary.n_rows < FewRowsLimit THEN 20 * C ELSE 0)
                    - (IF summary.n_cols > ManyColsLimit THEN 10 * C ELSE 0)
                    - 15 * Len(flags.high_cardinality_columns),
            100 * C)

\* C8 amended: for a table with no row or no column, max_missing_share is 0.0
\* and the constant-column, zero-ratio and id-duplicate penalties are not
\* subtracted, but the size penalties are: quality_score is
\* 1.0 - 0.2*[n_rows < 100] - 0.1*[n_cols > 100], less the cardinality
\* penalty, which is zero unless high_cardinality_threshold is negative.
EmptyTableKeepsSizePenalties ==
    (Flagged /\ empty(df)) =>
        /\ flags.max_missing_share = Zero
        /\ ~flags.has_constant_columns
        /\ ~flags.has_many_zero_values
        /\ ~flags.has_suspicious_id_duplicates
        /\ (args.high_cardinality_threshold >= 0 => ~flags.has_high_cardinality_categoricals)
        /\ (df.n_rows = 0 => flags.too_few_rows)
        /\ flags.quality_score = EmptyTableScore

\* a table with columns and no row, checked on one of its columns, scores 0.8
EmptyTableWitness ==
    /\ Flagged
    /\ df.n_rows = 0 /\ Len(df.columns) = 2
    /\ args.id_column = <<df.columns[1].name>>
    /\ args.high_cardinality_threshold = 0
    /\ flags.quality_score = Rat(8, 10)

\* C9: compute_quality_flags never divides by zero: a column flag that is
\* true implies n_cols > 0, the duplicate flag implies n_rows > 0, and a zero
\* ratio is taken only of a column with non_null > 0.
NoDivisionByZero ==
    Flagged =>
        /\ "raised" \notin DOMAIN flags
        /\ \A i \in DOMAIN divisors : divisors[i] # 0
        /\ (flags.has_constant_columns \/ flags.has_high_cardinality_categoricals
              \/ flags.has_many_zero_values) => summary.n_cols > 0
        /\ flags.has_suspicious_id_duplicates => summary.n_rows > 0

\* the ratio, constant, zero and duplicate divisions are made on a table that also has a numeric
\* column without any value, whose zero ratio is not taken
NoDivisionByZeroWitness ==
    /\ Flagged
    /\ Len(df.columns) = 2 /\ df.n_rows = 2
    /\ summary.columns[1].is_numeric /\ summary.columns[1].non_null = 0
    /\ flags.has_constant_columns /\ flags.has_many_zero_values
    /\ flags.has_suspicious_id_duplicates
    /\ divisors = <<2, 2, 2, 2>>

\* summarize_dataset has returned
Summarized == pc # "loaded"

\* C10: n_cols is the number of column summaries, which follow the table's
\* column order; for every column non_null + missing = n_rows, missing_share
\* is missing / n_rows within [0, 1], and 0.0 when n_rows = 0.
SummaryShapeAndShares ==
    Summarized =>
        /\ summary.n_rows = df.n_rows
        /\ summary.n_cols = Len(summary.columns)
        /\ Len(summary.columns) = Len(df.columns)
        /\ \A j \in DOMAIN summary.columns :
             LET c == summary.columns[j]
             IN  /\ c.name = df.columns[j].name
                 /\ c.non_null = NonNullOf(df.columns[j])
                 /\ c.non_null >= 0 /\ c.missing >= 0
                 /\ c.non_null + c.missing = summary.n_rows
                 /\ ~RLess(c.missing_share, Zero) /\ ~RLess(One, c.missing_share)
                 /\ c.missing_share.den > 0
                 /\ c.missing_share.num * summary.n_rows = c.missing * c.missing_share.den
                 /\ summary.n_rows = 0 => c.missing_share = Zero

\* two columns in order, one of them with a share of missing cells strictly
\* between 0 and 1
SummaryShapeAndSharesWitness ==
    /\ pc = "summarized"
    /\ summary.n_cols = 2 /\ summary.n_rows = 3
    /\ summary.columns[1].name = ColName(1) /\ summary.columns[2].name = ColName(2)
    /\ summary.columns[1].missing_share = Rat(1, 3)
    /\ summary.columns[2].missing_share = Zero

(***************************************************************************)
(* summarize_dataset as a function of its two arguments: the table and     *)
(* example_values_per_column >= 0.                                         *)
(***************************************************************************)
MaxExamples == 2

ExampleCounts == 0..MaxExamples

SummarizeWithExamples ==
    /\ pc = "loaded"
    /\ \E k \in ExampleCounts :
         /\ args' = [example_values_per_column |-> k]
         /\ summary' = summarize_dataset(df, k)
    /\ pc' = "summarized"
    /\ UNCHANGED <<df, missing_df, flags, divisors, reportVars, pairVars>>

NextSummarize == SummarizeWithExamples

SpecSummarize == Init /\ [][NextSummarize]_vars

\* the four optional statistics of a column summary
StatsOf(c) == <<c.min, c.max, c.mean, c.std>>

\* the statistics are all present exactly for a numeric column with a value,
\* and absent (None, no number in their place) otherwise
StatsPresence(c, col) ==
    IF is_numeric_dtype(col) /\ NonNullOf(col) > 0
    THEN /\ \A i \in 1..4 : StatsOf(c)[i] # None /\ Len(StatsOf(c)[i]) = 1
         /\ c.min[1] \in ValuesOf(col) /\ c.max[1] \in ValuesOf(col)
         /\ \A v \in ValuesOf(col) : c.min[1] <= v /\ v <= c.max[1]
         /\ c.mean[1].den > 0
         /\ c.min[1] * c.mean[1].den <= c.mean[1].num
         /\ c.mean[1].num <= c.max[1] * c.mean[1].den
         /\ (c.std[1] = NaN) = (NonNullOf(col) = 1)
    ELSE \A i \in 1..4 : StatsOf(c)[i] = None

\* C11 as stated: the statistics are present exactly for a numeric column
\* with a value, and example_values is empty exactly when the column has no
\* non-missing value and otherwise holds at most example_values_per_column
\* entries.
ExamplesEmptyOnlyWithoutValues ==
    pc = "summarized" =>
        \A j \in DOMAIN summary.columns :
            LET c == summary.columns[j]
                col == df.columns[j]
            IN  /\ StatsPresence(c, col)
                /\ (c.example_values = <<>>) = (NonNullOf(col) = 0)
                /\ Len(c.example_values) <= args.example_values_per_column

\* C11, amended: min, max, mean and std are all present exactly when the
\* column is numeric and has a non-missing value, and all absent otherwise;
\* example_values holds the first example_values_per_column distinct values,
\* so it is empty when the column has no non-missing value and also when
\* example_values_per_column is 0.
StatsPresentAndExamplesBounded ==
    pc = "summarized" =>
        \A j \in DOMAIN summary.columns :
            LET c == summary.columns[j]
                col == df.columns[j]
                k == args.example_values_per_column
                distinct == Cardinality(ValuesOf(col))
            IN  /\ StatsPresence(c, col)
                /\ Len(c.example_values) = IF k < distinct THEN k ELSE distinct
                /\ (c.example_values = <<>>) = (NonNullOf(col) = 0 \/ k = 0)
                /\ \A i \in DOMAIN c.example_values :
                     \E v \in ValuesOf(col) : c.example_values[i] = astype_str(col.dtype, v)

\* one example kept of two distinct values, next to a numeric column with no
\* value, whose statistics are absent
StatsPresentAndExamplesBoundedWitness ==
    /\ pc = "summarized"
    /\ args.example_values_per_column = 1
    /\ Len(summary.columns) = 2
    /\ summary.columns[1].unique = 2
    /\ summary.columns[1].is_numeric
    /\ Len(summary.columns[1].example_values) = 1
    /\ summary.columns[1].mean = <<Rat(1, 2)>>
    /\ summary.columns[1].std # None
    /\ summary.columns[2].is_numeric
    /\ summary.columns[2].non_null = 0
    /\ summary.columns[2].min = None
    /\ summary.columns[2].std = None

(***************************************************************************)
(* top_categories as a function of the table, max_columns and top_k.  The  *)
(* tables have columns of dtype category too.                              *)
(***************************************************************************)
MaxTopCells == 4

MaxColumnsArgs == {-1, 0, 1, 2}
TopKArgs == {-1, 0, 1, 2}

\* every table of at most MaxRows rows, MaxCols columns and MaxTopCells cells
TopTables ==
    UNION {{MkTable(rc[1], cs) :
              cs \in [1..rc[2] -> ColumnContents(rc[1]) \cup CategoryContents(rc[1])]} :
             rc \in {x \in (0..MaxRows) \X (0..MaxCols) : x[1] * x[2] <= MaxTopCells}}

InitTop ==
    /\ df \in TopTables
    /\ df2 = <<>>
    /\ Fresh

InitSmall ==
    /\ df \in SmallTables
    /\ df2 = <<>>
    /\ Fresh

TopCategories ==
    /\ pc = "loaded"
    /\ \E mc \in MaxColumnsArgs, tk \in TopKArgs :
         /\ args' = [max_columns |-> mc, top_k |-> tk]
         /\ top_cats' \in top_categories_outcomes(df, mc, tk)
    /\ pc' = "top_categories"
    /\ UNCHANGED <<df, summary, missing_df, flags, divisors, corr_df, report_content, files, pairVars>>

NextTop == TopCategories

SpecTop == InitTop /\ [][NextTop]_vars

\* x + y
RAdd(x, y) == RSub(x, RSub(Zero, y))

RECURSIVE SumOfShares(_)
SumOfShares(rows) ==
    IF rows = <<>> THEN Zero ELSE RAdd(rows[1].share, SumOfShares(Tail(rows)))

RECURSIVE SumOfCounts(_)
SumOfCounts(rows) ==
    IF rows = <<>> THEN 0 ELSE rows[1].count + SumOfCounts(Tail(rows))

\* C12: for max_columns >= 1 and top_k >= 1, every returned table has between
\* 1 and top_k rows, its counts never increase down the table, every share
\* is the count over the sum of the kept counts, and the shares sum to 1.0.
TopCategoriesRowsAndShares ==
    (pc = "top_categories" /\ args.max_columns >= 1 /\ args.top_k >= 1) =>
        \A e \in DOMAIN top_cats :
            LET rows == top_cats[e].table
            IN  /\ Len(rows) >= 1 /\ Len(rows) <= args.top_k
                /\ \A i \in 1..(Len(rows) - 1) : rows[i].count >= rows[i + 1].count
                /\ \A i \in DOMAIN rows :
                     /\ rows[i].share # NaN
                     /\ rows[i].share.num * SumOfCounts(rows) = rows[i].count * rows[i].share.den
                /\ SumOfShares(rows) = One

\* the positions of the non-numeric columns, and of those top_categories is
\* to report: among the first max_columns of them, the ones that hold a value
TextColumns == {j \in DOMAIN df.columns : df.columns[j].dtype \in {"object", "category"}}

ExpectedKeys ==
    {j \in TextColumns :
       /\ Cardinality({i \in TextColumns : i <= j}) <= args.max_columns
       /\ NonNullOf(df.columns[j]) > 0}

\* the keys of the result are the expected columns, in column order
KeysAreExpected ==
    /\ Len(top_cats) = Cardinality(ExpectedKeys)
    /\ \A e \in DOMAIN top_cats :
         \E j \in ExpectedKeys :
            /\ top_cats[e].name = df.columns[j].name
            /\ Cardinality({i \in ExpectedKeys : i <= j}) = e

\* C13: for counts max_columns >= 0 and top_k >= 0, the keys are exactly the
\* columns among the first max_columns non-numeric columns, in column order,
\* that hold a non-missing value.
TopCategoriesKeysForAnyTopK ==
    (pc = "top_categories" /\ args.max_columns >= 0 /\ args.top_k >= 0) => KeysAreExpected

(***************************************************************************)
(* missing_table as a function of the table, in every order its sort may   *)
(* leave equal shares in.                                                  *)
(***************************************************************************)
MissingTableOutcome ==
    /\ pc = "loaded"
    /\ missing_df' \in missing_table_outcomes(df)
    /\ pc' = "missing"
    /\ UNCHANGED <<df, summary, flags, divisors, args, reportVars, pairVars>>

NextMissing == MissingTableOutcome

SpecMissing == InitSmall /\ [][NextMissing]_vars

\* the position of column `name` in the table
ColumnIndex(name) == CHOOSE j \in DOMAIN df.columns : df.columns[j].name = name

\* C14: for a table with a row and a column, missing_table has one entry per
\* column with missing_count the number of missing cells and missing_share =
\* missing_count / n_rows, ordered by missing_share descending, columns of
\* equal missing_share in their original column order; for an empty table it
\* has no entry.
MissingTableStableOrder ==
    pc = "missing" =>
        IF df.n_rows >= 1 /\ Len(df.columns) >= 1
        THEN /\ Len(missing_df) = Len(df.columns)
             /\ \A j \in DOMAIN df.columns :
                  \E i \in DOMAIN missing_df :
                     /\ missing_df[i].name = df.columns[j].name
                     /\ missing_df[i].missing_count = df.n_rows - NonNullOf(df.columns[j])
                     /\ missing_df[i].missing_share.den > 0
                     /\ missing_df[i].missing_share.num * df.n_rows
                          = missing_df[i].missing_count * missing_df[i].missing_share.den
             /\ \A i \in 1..(Len(missing_df) - 1) :
                  \/ RLess(missing_df[i + 1].missing_share, missing_df[i].missing_share)
                  \/ /\ missing_df[i + 1].missing_share = missing_df[i].missing_share
                     /\ ColumnIndex(missing_df[i].name) < ColumnIndex(missing_df[i + 1].name)
        ELSE missing_df = <<>>

(***************************************************************************)
(* Two tables of equal shape scored with the same arguments, as the test   *)
(* of the score does with a clean and a bad table: the first table has no  *)
(* missing cell and no constant column, the second is any table of its     *)
(* shape.                                                                  *)
(***************************************************************************)
MaxPairCells == 3

PairShapes ==
    {rc \in (0..MaxRows) \X (0..MaxCols) : rc[1] * rc[2] <= MaxPairCells}

TablesOfShape(r, c) == {MkTable(r, cs) : cs \in [1..c -> ColumnContents(r)]}

\* one column of FewRowsLimit rows that repeats a pattern of two cells
LongColumnTables ==
    {MkTable(FewRowsLimit, <<Cycle(a, FewRowsLimit)>>) : a \in ColumnContents(2)}

\* no cell is missing and no column holds one value only
no_missing_no_constant(table) ==
    \A j \in DOMAIN table.columns :
        /\ \A i \in DOMAIN table.columns[j].cells : notna(table.columns[j].cells[i])
        /\ nunique(table.columns[j].cells) # 1

PairHighCardinalityThresholds == {0, 2}
PairIdColumns == {None, <<ColName(1)>>}

\* summarize_dataset, missing_table and compute_quality_flags on one table,
\* for each order missing_table may return its rows in
quality_flags_outcomes(table, high_cardinality_threshold, zero_ratio_threshold, id_column) ==
    {compute_quality_flags(summarize_dataset(table, ExampleValuesDefault), m, table,
                           high_cardinality_threshold, zero_ratio_threshold, id_column) :
       m \in missing_table_outcomes(table)}

InitPair ==
    /\ \/ \E rc \in PairShapes :
            /\ df \in {t \in TablesOfShape(rc[1], rc[2]) : no_missing_no_constant(t)}
            /\ df2 \in TablesOfShape(rc[1], rc[2])
       \/ /\ df \in {t \in LongColumnTables : no_missing_no_constant(t)}
          /\ df2 \in LongColumnTables
    /\ Fresh

ScoreBoth ==
    /\ pc = "loaded"
    /\ \E hct \in PairHighCardinalityThresholds, zrt \in ZeroRatioThresholds, idc \in PairIdColumns :
         /\ args' = [high_cardinality_threshold |-> hct,
                     zero_ratio_threshold |-> zrt,
                     id_column |-> idc]
         /\ flags' \in quality_flags_outcomes(df, hct, zrt, idc)
         /\ flags2' \in quality_flags_outcomes(df2, hct, zrt, idc)
    /\ pc' = "compared"
    /\ UNCHANGED <<df, df2, summary, missing_df, divisors, reportVars>>

NextPair == ScoreBoth

SpecPair == InitPair /\ [][NextPair]_vars

\* the table has a missing cell
HasMissingCell(table) ==
    \E j \in DOMAIN table.columns : NonNullOf(table.columns[j]) < table.n_rows

\* no missing value and no constant, high-cardinality, high-zero or
\* id-duplicate flag
CleanTable(table, f) ==
    /\ ~HasMissingCell(table)
    /\ ~f.has_constant_columns
    /\ ~f.has_high_cardinality_categoricals
    /\ ~f.has_many_zero_values
    /\ ~f.has_suspicious_id_duplicates

\* a missing value, a constant column or a high-zero column
BadTable(table, f) ==
    \/ HasMissingCell(table)
    \/ f.has_constant_columns
    \/ f.has_many_zero_values

\* C15: of two tables of equal shape with at most 100 columns, the first
\* clean and the second with a missing value, a constant column or a
\* high-zero column, the first scores at least 0.8 and the second strictly
\* less than the first, and less than 0.8 when n_rows < 100.
CleanScoresAboveBad ==
    (/\ pc = "compared"
     /\ shape(df) = shape(df2)
     /\ Len(df.columns) <= ManyColsLimit
     /\ CleanTable(df, flags)
     /\ BadTable(df2, flags2)) =>
        /\ ~RLess(flags.quality_score, Rat(8, 10))
        /\ RLess(flags2.quality_score, flags.quality_score)
        /\ df.n_rows < FewRowsLimit => RLess(flags2.quality_score, Rat(8, 10))

\* a clean table of three rows scores 0.8, and a table of its shape with a
\* missing value in a constant column scores less
CleanScoresAboveBadWitness ==
    /\ pc = "compared"
    /\ df.n_rows = 3 /\ Len(df.columns) = 1
    /\ shape(df) = shape(df2)
    /\ CleanTable(df, flags)
    /\ HasMissingCell(df2) /\ flags2.has_constant_columns
    /\ flags.quality_score = Rat(8, 10)
    /\ RLess(flags2.quality_score, Rat(8, 10))

\* C16: in every returned mapping, has_suspicious_id_duplicates is true only
\* if the key id_column_checked is present and id_duplicates_count >= 2; the
\* count is never exactly 1, and the flag is true exactly when it is not 0.
DuplicateFlagHasCheckedColumn ==
    Flagged =>
        /\ "has_suspicious_id_duplicates" \in DOMAIN flags
        /\ "id_duplicates_count" \in DOMAIN flags
        /\ flags.id_duplicates_count # 1
        /\ flags.has_suspicious_id_duplicates = (flags.id_duplicates_count > 0)
        /\ flags.has_suspicious_id_duplicates =>
             /\ "id_column_checked" \in DOMAIN flags
             /\ flags.id_column_checked = args.id_column[1]
             /\ flags.id_column_checked \in ColumnNames(df)
             /\ flags.id_duplicates_count >= 2
             /\ flags.id_duplicates_count <= df.n_rows

\* the flag is raised for two rows that share an id, and names the column
DuplicateFlagHasCheckedColumnWitness ==
    /\ Flagged
    /\ flags.has_suspicious_id_duplicates
    /\ flags.id_duplicates_count = 2
    /\ df.n_rows = 3
    /\ "id_column_checked" \in DOMAIN flags
    /\ flags.id_column_checked = ColName(2)

(***************************************************************************)
(* The report command: the table read from the CSV file is analysed and    *)
(* the tables are written, the Markdown report is generated and written,   *)
(* and the plots are saved.  files is the content of the output directory. *)
(* Of the Markdown text the model keeps the headings and the image links;  *)
(* of the correlation matrix, its column labels.                           *)
(***************************************************************************)
MaxLoadedCells == 4

TopCategoriesMaxColumnsDefault == 5
HighCardinalityDefault == 50
MaxHistColumnsDefault == 6
BarchartMaxColumns == 5
ZeroRatioDefault == Rat(1, 2)
MinMissingShareDefault == Rat(1, 10)

BoolCells == {<<0>>, <<1>>}

\* what pd.read_csv makes of a column of r cells: without a row it is an
\* object column; an empty cell is missing; a column of numbers and empty cells
\* is float64, one of whole numbers alone is int64, one of True and False
\* alone is bool, one with text is object
LoadedColumnContents(r) ==
    IF r = 0 THEN {[dtype |-> "object", cells |-> <<>>]}
    ELSE {[dtype |-> "float64", cells |-> s] : s \in [1..r -> NumCells]}
         \cup {[dtype |-> "int64", cells |-> s] : s \in [1..r -> IntCells]}
         \cup {[dtype |-> "object", cells |-> s] :
                 s \in {t \in [1..r -> CatCells] : \E i \in 1..r : notna(t[i])}}
         \cup {[dtype |-> "bool", cells |-> s] : s \in [1..r -> BoolCells]}

\* the tables _load_csv returns: a header of at least one column
LoadedTables ==
    UNION {{MkTable(rc[1], cs) : cs \in [1..rc[2] -> LoadedColumnContents(rc[1])]} :
             rc \in {x \in (0..MaxRows) \X (1..MaxCols) : x[1] * x[2] <= MaxLoadedCells}}

\* the names of the columns, in order
NamesOf(columns) == [i \in DOMAIN columns |-> columns[i].name]

\* correlation_matrix: the empty frame when numeric_df.empty (no number column
\* or no row), else a square matrix labelled by the number columns
correlation_matrix(table) ==
    LET numeric_df == SelectSeq(table.columns, is_number_dtype)
    IN  IF Len(numeric_df) = 0 \/ table.n_rows = 0
        THEN [columns |-> <<>>]
        ELSE [columns |-> NamesOf(numeric_df)]

\* corr_df.empty
frame_empty(frame) == Len(frame.columns) = 0

\* summary.csv, missing.csv, correlation.csv and top_categories/*.csv
tables_written(missing_table_rows, corr, tc) ==
    {"summary.csv"}
    \cup (IF Len(missing_table_rows) # 0 THEN {"missing.csv"} ELSE {})
    \cup (IF ~frame_empty(corr) THEN {"correlation.csv"} ELSE {})
    \cup {"top_categories/top_values_" \o tc[i].name \o ".csv" : i \in DOMAIN tc}

\* the headings of the sections on the flags
flag_headings(quality_flags) ==
    (IF quality_flags.has_constant_columns THEN <<"constant_columns">> ELSE <<>>)
    \o (IF quality_flags.has_high_cardinality_categoricals THEN <<"high_cardinality">> ELSE <<>>)
    \o (IF quality_flags.has_many_zero_values THEN <<"many_zeros">> ELSE <<>>)
    \o (IF quality_flags.has_suspicious_id_duplicates THEN <<"id_duplicates">> ELSE <<>>)

\* the keys of top_categories(df, max_columns=top_k, top_k=top_k), which do not
\* depend on the order of equal counts
top_categories_keys(table, top_k) ==
    NamesOf(CHOOSE outcome \in top_categories_outcomes(table, top_k, top_k) : TRUE)

\* the image links, in the order they are appended
image_links(s, include_boxplots) ==
    (IF include_boxplots THEN <<"numeric_boxplots.png">> ELSE <<>>)
    \o <<"missing_matrix.png">>
    \o (IF Len(SelectSeq(s.columns, LAMBDA col : col.is_numeric)) >= 2
        THEN <<"correlation_heatmap.png">> ELSE <<>>)

\* the Markdown report, or the error raised on the way: a KeyError when the
\* duplicates section reads a missing id_column_checked, a TypeError when
\* f"{col.mean:.2f}" or f"{col.std:.2f}" formats None
generate_report(table, s, quality_flags, top_k, min_missing_share, include_boxplots, include_category_barcharts) ==
    LET problematic_missing ==
            SelectSeq(s.columns, LAMBDA col : RLess(min_missing_share, col.missing_share))
        categorical_cols == SelectSeq(s.columns, LAMBDA col : ~col.is_numeric)
        numeric_cols == SelectSeq(s.columns, LAMBDA col : col.is_numeric)
        described == head(numeric_cols, top_k)
        headings ==
            <<"title", "general", "quality">>
            \o (IF Len(problematic_missing) > 0 THEN <<"missing_columns">> ELSE <<"no_missing_columns">>)
            \o flag_headings(quality_flags)
            \o (IF Len(categorical_cols) > 0
                THEN <<"top_categories">> \o top_categories_keys(table, top_k) ELSE <<>>)
            \o (IF Len(numeric_cols) > 0 THEN <<"numeric">> \o NamesOf(described) ELSE <<>>)
            \o <<"visualizations", "histograms">>
            \o (IF include_boxplots THEN <<"boxplot">> ELSE <<>>)
            \o (IF include_category_barcharts THEN <<"barcharts">> ELSE <<>>)
            \o <<"missing_matrix">>
            \o (IF Len(numeric_cols) >= 2 THEN <<"heatmap">> ELSE <<>>)
    IN  IF /\ quality_flags.has_suspicious_id_duplicates
           /\ "id_column_checked" \notin DOMAIN quality_flags
        THEN [raised |-> "KeyError"]
        ELSE IF \E i \in DOMAIN described : described[i].mean = None \/ described[i].std = None
        THEN [raised |-> "TypeError"]
        ELSE [headings |-> headings, images |-> image_links(s, include_boxplots)]

\* the hist_<i>_<name>.png files: one per number column, among the first
\* max_columns, that has a value
histograms_written(table, max_columns) ==
    LET numeric_df == head(SelectSeq(table.columns, is_number_dtype), max_columns)
    IN  {"hist_" \o Str(i) \o "_" \o numeric_df[i].name \o ".png" :
           i \in {k \in DOMAIN numeric_df : notna_sum(numeric_df[k].cells) > 0}}

\* the barchart_<name>.png files: one per text column, among the first
\* max_columns, whose value_counts().head(top_k) is not empty
barcharts_written(table, top_k, max_columns) ==
    LET categorical_cols == head(SelectSeq(table.columns, is_object_dtype), max_columns)
    IN  {"barchart_" \o categorical_cols[i].name \o ".png" :
           i \in {k \in DOMAIN categorical_cols :
                    head([n \in 1..Cardinality(counted_values(categorical_cols[k])) |-> n],
                         top_k) # <<>>}}

\* the image files the command saves after the report is written
plots_written(table, corr, top_k, include_boxplots, include_category_barcharts) ==
    histograms_written(table, MaxHistColumnsDefault)
    \cup {"missing_matrix.png"}
    \cup (IF ~frame_empty(corr) THEN {"correlation_heatmap.png"} ELSE {})
    \cup (IF include_boxplots THEN {"numeric_boxplots.png"} ELSE {})
    \cup (IF include_category_barcharts
          THEN barcharts_written(table, top_k, BarchartMaxColumns) ELSE {})

ReportTopKs == {0, 1, 2}

InitLoaded ==
    /\ df \in LoadedTables
    /\ df2 = <<>>
    /\ Fresh

ReportAnalyze ==
    /\ pc = "loaded"
    /\ \E tk \in ReportTopKs, bp \in BOOLEAN, bc \in BOOLEAN, idc \in PairIdColumns :
         /\ args' = [top_k_categories |-> tk,
                     include_boxplots |-> bp,
                     include_category_barcharts |-> bc,
                     check_id_column |-> idc]
         /\ summary' = summarize_dataset(df, ExampleValuesDefault)
         /\ missing_df' \in missing_table_outcomes(df)
         /\ corr_df' = correlation_matrix(df)
         /\ top_cats' \in top_categories_outcomes(df, TopCategoriesMaxColumnsDefault, tk)
         /\ flags' = compute_quality_flags(summary', missing_df', df,
                                           HighCardinalityDefault, ZeroRatioDefault, idc)
         /\ files' = tables_written(missing_df', corr_df', top_cats')
    /\ pc' = "analyzed"
    /\ UNCHANGED <<df, divisors, report_content, pairVars>>

ReportRender ==
    /\ pc = "analyzed"
    /\ report_content' = generate_report(df, summary, flags, args.top_k_categories,
                                         MinMissingShareDefault, args.include_boxplots,
                                         args.include_category_barcharts)
    /\ IF "raised" \in DOMAIN report_content'
       THEN pc' = "raised" /\ files' = files
       ELSE pc' = "rendered" /\ files' = files \cup {"report.md"}
    /\ UNCHANGED <<df, summary, missing_df, flags, divisors, args, top_cats, corr_df, pairVars>>

ReportPlots ==
    /\ pc = "rendered"
    /\ files' = files \cup plots_written(df, corr_df, args.top_k_categories,
                                         args.include_boxplots, args.include_category_barcharts)
    /\ pc' = "done"
    /\ UNCHANGED <<df, summary, missing_df, flags, divisors, args, top_cats, corr_df,
                   report_content, pairVars>>

NextReport == ReportAnalyze \/ ReportRender \/ ReportPlots

SpecReport == InitLoaded /\ [][NextReport]_vars

\* C17: when the report command has finished, every image report.md links
\* to is in the output directory, and the heatmap is there whenever the
\* summary has at least two numeric columns.
ReportImagesWritten ==
    pc = "done" =>
        /\ "report.md" \in files
        /\ \A i \in DOMAIN report_content.images : report_content.images[i] \in files
        /\ Cardinality({j \in DOMAIN summary.columns : summary.columns[j].is_numeric}) >= 2
             => "correlation_heatmap.png" \in files

\* C18: generate_report returns the Markdown text and raises no error, also
\* for a numeric column whose cells are all missing and for a table with no
\* row.
GenerateReportReturns ==
    pc \in {"rendered", "raised", "done"} =>
        /\ "raised" \notin DOMAIN report_content
        /\ "headings" \in DOMAIN report_content

====
